---- MODULE Spec2Model ----
(***************************************************************************)
(* Model of kb_ci_runner.py: the scan of kb_export/ into a registry and a  *)
(* cross-reference graph, the lint pass over them, the index writer and    *)
(* the main pipeline.                                                      *)
(*                                                                         *)
(* Strings are sequences of one-character strings, so that slug            *)
(* derivation and reference extraction are computed character by           *)
(* character as the regular expressions and str methods of the source do.  *)
(* A Python dict is a sequence of <<key, value>> pairs in insertion order. *)
(* The title, updated_utc and anchors of an entry are functions of one     *)
(* file's bytes and mtime that nothing downstream reads; they are left out *)
(* of the registry records.                                                *)
(***************************************************************************)
EXTENDS Naturals, Sequences, FiniteSets, TLC

(***************************************************************************)
(* Characters and strings                                                  *)
(***************************************************************************)
LowerMap ==
    [A |-> "a", B |-> "b", C |-> "c", D |-> "d", E |-> "e", F |-> "f",
     G |-> "g", H |-> "h", I |-> "i", J |-> "j", K |-> "k", L |-> "l",
     M |-> "m", N |-> "n", O |-> "o", P |-> "p", Q |-> "q", R |-> "r",
     S |-> "s", T |-> "t", U |-> "u", V |-> "v", W |-> "w", X |-> "x",
     Y |-> "y", Z |-> "z"]

\* str.lower() on one character
LowerChar(c) == IF c \in DOMAIN LowerMap THEN LowerMap[c] ELSE c

\* str.lower()
Lower(s) == [i \in 1..Len(s) |-> LowerChar(s[i])]

\* the class \s of the re module, restricted to the characters the texts use
Spaces == {" ", "\n", "\t"}
IsSpace(c) == c \in Spaces

\* s[i:] for a 1-based i
From(s, i) == SubSeq(s, i, Len(s))

\* s.startswith(pat) at position i
HasAt(s, i, pat) ==
    /\ i + Len(pat) - 1 <= Len(s)
    /\ SubSeq(s, i, i + Len(pat) - 1) = pat

RECURSIVE Replace(_, _, _)
\* str.replace(pat, by): every non-overlapping occurrence, left to right,
\* compared case-sensitively
Replace(s, pat, by) ==
    IF s = <<>> THEN <<>>
    ELSE IF HasAt(s, 1, pat) THEN by \o Replace(From(s, Len(pat) + 1), pat, by)
    ELSE <<Head(s)>> \o Replace(Tail(s), pat, by)

RECURSIVE Strip(_)
\* str.strip()
Strip(s) ==
    IF s = <<>> THEN s
    ELSE IF IsSpace(s[1]) THEN Strip(Tail(s))
    ELSE IF IsSpace(s[Len(s)]) THEN Strip(SubSeq(s, 1, Len(s) - 1))
    ELSE s

\* the length of the longest prefix of s made of characters that are in
\* class (inside = TRUE) or that are not in class (inside = FALSE): how far a
\* greedy x+ over a character class runs
RunEnd(s, class, inside) ==
    IF \E i \in 1..Len(s) : (s[i] \in class) # inside
    THEN (CHOOSE i \in 1..Len(s) :
              /\ (s[i] \in class) # inside
              /\ \A j \in 1..(i - 1) : (s[j] \in class) = inside) - 1
    ELSE Len(s)

RECURSIVE SubSpaces(_)
\* re.sub(r"\s+", "-", s)
SubSpaces(s) ==
    IF s = <<>> THEN <<>>
    ELSE IF IsSpace(s[1])
         THEN <<"-">> \o SubSpaces(From(s, RunEnd(s, Spaces, TRUE) + 1))
         ELSE <<s[1]>> \o SubSpaces(Tail(s))

IsSlash(c) == c = "/"

RECURSIVE SubSlashes(_)
\* re.sub(r"/{2,}", "/", s): a run of two or more becomes one, and a single
\* slash is copied
SubSlashes(s) ==
    IF s = <<>> THEN <<>>
    ELSE IF IsSlash(s[1])
         THEN <<"/">> \o SubSlashes(From(s, RunEnd(s, {"/"}, TRUE) + 1))
         ELSE <<s[1]>> \o SubSlashes(Tail(s))

RECURSIVE Join(_, _)
\* sep.join(parts)
Join(sep, parts) ==
    IF parts = <<>> THEN <<>>
    ELSE IF Len(parts) = 1 THEN parts[1]
    ELSE parts[1] \o sep \o Join(sep, Tail(parts))

(***************************************************************************)
(* Paths: a path relative to KB_ROOT is the sequence of its parts          *)
(***************************************************************************)
\* PurePath.suffix: the last component from its last dot, unless that dot is
\* the first or the last character of the name
Suffix(path) ==
    LET name == path[Len(path)]
        dots == {i \in 1..Len(name) : name[i] = "."}
    IN  IF dots = {} THEN <<>>
        ELSE LET i == CHOOSE d \in dots : \A e \in dots : e <= d
             IN  IF i > 1 /\ i < Len(name) THEN From(name, i) ELSE <<>>

\* PurePath.with_suffix("")
WithoutSuffix(path) ==
    LET name == path[Len(path)]
    IN  [path EXCEPT ![Len(path)] = SubSeq(name, 1, Len(name) - Len(Suffix(path)))]

MD_EXTS == { <<".", "m", "d">>, <<".", "m", "a", "r", "k", "d", "o", "w", "n">> }

slugify_path(md_path) ==
    LET rel  == WithoutSuffix(md_path)
        slug == <<"/">> \o Join(<<"/">>, rel)
    IN  SubSlashes(SubSpaces(Strip(slug)))

ENCYCLOPEDIA == <<"e", "n", "c", "y", "c", "l", "o", "p", "e", "d", "i", "a">>
SYNTHESIS == <<"s", "y", "n", "t", "h", "e", "s", "i", "s">>

detect_type(md_path) ==
    IF md_path # <<>> /\ Lower(md_path[1]) = ENCYCLOPEDIA THEN "encyclopedia"
    ELSE IF md_path # <<>> /\ Lower(md_path[1]) = SYNTHESIS THEN "synthesis"
    ELSE "other"

(***************************************************************************)
(* Reference extraction                                                    *)
(***************************************************************************)
KB_PREFIX == <<"k", "b", ":", "/">>

\* the characters the class [^\s)] of KB_REF_PATTERN excludes
RefStops == Spaces \cup {")"}

\* the class [\w\-] of KB_REF_PATTERN, over ASCII
AnchorChars ==
    DOMAIN LowerMap \cup {LowerMap[k] : k \in DOMAIN LowerMap}
        \cup {"0", "1", "2", "3", "4", "5", "6", "7", "8", "9", "_", "-"}

\* KB_REF_PATTERN matches at position i of md: KB:/ in any letter case
\* (re.IGNORECASE) followed by at least one [^\s)]
MatchesAt(md, i) ==
    /\ i + Len(KB_PREFIX) <= Len(md)
    /\ Lower(SubSeq(md, i, i + Len(KB_PREFIX) - 1)) = KB_PREFIX
    /\ md[i + Len(KB_PREFIX)] \notin RefStops

\* the index just after the match that starts at i: the greedy run of
\* [^\s)]+, then the optional group (?:#[\w\-]+)? tried where the run stopped
MatchEnd(md, i) ==
    LET start == i + Len(KB_PREFIX)
        stop  == start + RunEnd(From(md, start), RefStops, FALSE)
    IN  IF stop + 1 <= Len(md) /\ md[stop] = "#" /\ md[stop + 1] \in AnchorChars
        THEN stop + 1 + RunEnd(From(md, stop + 1), AnchorChars, TRUE)
        ELSE stop

RECURSIVE FindMatches(_, _)
\* KB_REF_PATTERN.finditer(md), from position i: the matched texts in order
FindMatches(md, i) ==
    IF i > Len(md) THEN <<>>
    ELSE IF MatchesAt(md, i)
         THEN <<SubSeq(md, i, MatchEnd(md, i) - 1)>> \o FindMatches(md, MatchEnd(md, i))
         ELSE FindMatches(md, i + 1)

KB_TOKEN == <<"K", "B", ":">>

\* the body of the loop of collect_kb_refs: one match to (slug, anchor)
ParseRef(raw) ==
    LET hashes == {i \in 1..Len(raw) : raw[i] = "#"}
        h      == IF hashes = {} THEN Len(raw) + 1
                  ELSE CHOOSE i \in hashes : \A j \in hashes : i <= j
        slug   == SubSeq(raw, 1, h - 1)
        anchor == From(raw, h + 1)
    IN  <<Replace(slug, KB_TOKEN, <<>>), anchor>>

collect_kb_refs(md) ==
    LET ms == FindMatches(md, 1)
    IN  [i \in 1..Len(ms) |-> ParseRef(ms[i])]

(***************************************************************************)
(* Python dicts, in insertion order                                        *)
(***************************************************************************)
Keys(d) == {d[i][1] : i \in DOMAIN d}

\* d[k], for k in d
Get(d, k) == d[CHOOSE i \in DOMAIN d : d[i][1] = k][2]

\* d[k] = v: an existing key keeps its position
Put(d, k, v) ==
    IF k \in Keys(d)
    THEN [i \in DOMAIN d |-> IF d[i][1] = k THEN <<k, v>> ELSE d[i]]
    ELSE Append(d, <<k, v>>)

\* list(S) for a set S of str: every order is possible, since str hashes
\* are salted per process
ListOrders(S) ==
    {l \in [1..Cardinality(S) -> S] : \A x \in S : \E i \in DOMAIN l : l[i] = x}

(***************************************************************************)
(* The corpora the model explores                                          *)
(***************************************************************************)
MaxFiles == 2

Sp == <<" ">>
Ref(target) == KB_TOKEN \o target

SLUG_A == <<"/">> \o ENCYCLOPEDIA \o <<"/", "a">>
SLUG_S == <<"/">> \o SYNTHESIS \o <<"/", "s", "-", "t">>
SLUG_NOPE == <<"/", "n", "o", "p", "e">>

\* encyclopedia/a.md, encyclopedia/a.markdown, "synthesis/s t.md", r.MD and
\* encyclopedia/a.txt
PATH_A == <<ENCYCLOPEDIA, <<"a", ".", "m", "d">>>>
PATH_A2 == <<ENCYCLOPEDIA, <<"a", ".", "m", "a", "r", "k", "d", "o", "w", "n">>>>
PATH_S == <<SYNTHESIS, <<"s", " ", "t", ".", "m", "d">>>>
PATH_R == << <<"r", ".", "M", "D">> >>
PATH_TXT == <<ENCYCLOPEDIA, <<"a", ".", "t", "x", "t">>>>

Paths == {PATH_A, PATH_A2, PATH_S, PATH_R, PATH_TXT}

\* "", "KB:/encyclopedia/a", "kb:/encyclopedia/a",
\* "See KB:/synthesis/s-t#bar-baz (KB:/encyclopedia/a) KB:/synthesis/s-t" and
\* "KB:/encyclopedia/a KB:/synthesis/s-t KB:/nope"
TEXT_NONE == <<>>
TEXT_ONE == Ref(SLUG_A)
TEXT_LOWER == <<"k", "b", ":">> \o SLUG_A
TEXT_TWO ==
    <<"S", "e", "e", " ">> \o Ref(SLUG_S) \o <<"#", "b", "a", "r", "-", "b", "a", "z">>
        \o <<" ", "(">> \o Ref(SLUG_A) \o <<")", " ">> \o Ref(SLUG_S)
TEXT_THREE == Ref(SLUG_A) \o Sp \o Ref(SLUG_S) \o Sp \o Ref(SLUG_NOPE)

Texts == {TEXT_NONE, TEXT_ONE, TEXT_LOWER, TEXT_TWO, TEXT_THREE}

\* the texts a file may hold: any of Texts in a Markdown file, a reference in
\* the one file that is not Markdown
TextsFor(p) == IF p = PATH_TXT THEN {TEXT_ONE} ELSE Texts

\* the trees under kb_export/: at most MaxFiles files, each with some text
Corpora ==
    UNION {{f \in [ps -> Texts] : \A p \in ps : f[p] \in TextsFor(p)} :
               ps \in {q \in SUBSET Paths : Cardinality(q) <= MaxFiles}}

(***************************************************************************)
(* State                                                                   *)
(***************************************************************************)
VARIABLES
    root_exists,  \* kb_export/ exists
    fs,           \* the files under kb_export/: relative path -> text
    indexes,      \* kb_export/indexes/: registry.json and cross_links.json
    pc,           \* the statement of main the process is at
    args,         \* the parsed command line
    registry,     \* dict slug -> entry
    cross,        \* dict slug -> {"refs": [...]}
    errors,       \* list of error messages
    warnings,     \* list of warning messages
    stdout,       \* the lines printed
    zip_path      \* the archive make_bundle wrote in this run, if any

vars ==
    <<root_exists, fs, indexes, pc, args, registry, cross, errors, warnings,
      stdout, zip_path>>

NoIndexes == [exists |-> FALSE, registry_json |-> <<>>, cross_links_json |-> <<>>]
NoArgs == [bundle |-> FALSE]
NoZip == [written |-> FALSE, members |-> {}, with_indexes |-> FALSE]

\* a fresh process: nothing parsed, scanned, linted or printed yet
Fresh ==
    /\ pc = "args"
    /\ args = NoArgs
    /\ registry = <<>>
    /\ cross = <<>>
    /\ errors = <<>>
    /\ warnings = <<>>
    /\ stdout = <<>>
    /\ zip_path = NoZip

Init ==
    /\ root_exists \in BOOLEAN
    /\ fs \in (IF root_exists THEN Corpora ELSE {<<>>})
    /\ indexes = NoIndexes
    /\ Fresh

(***************************************************************************)
(* scan_repository                                                         *)
(***************************************************************************)
\* the files list of scan_repository: KB_ROOT.rglob("*") yields nothing when
\* kb_export/ does not exist, and otherwise every file, of which those with a
\* Markdown suffix are kept
Files ==
    IF root_exists THEN {p \in DOMAIN fs : Lower(Suffix(p)) \in MD_EXTS} ELSE {}

\* the distinct targets of a text: {s for s, _ in refs}
Targets(md) == LET refs == collect_kb_refs(md) IN {refs[i][1] : i \in DOMAIN refs}

\* one iteration of the loop of scan_repository, for the file at path; lst is
\* the order list() gave the set of targets
ScanOne(acc, path, lst) ==
    LET md   == fs[path]
        slug == slugify_path(path)
        kind == detect_type(path)
        reg  == Put(acc.registry, slug, [slug |-> slug, type |-> kind, file |-> path])
    IN  IF collect_kb_refs(md) # <<>>
        THEN [registry |-> reg, cross |-> Put(acc.cross, slug, [refs |-> lst])]
        ELSE [registry |-> reg, cross |-> acc.cross]

RECURSIVE ScanFrom(_, _)
\* the results the loop can end with from acc with the files of remaining left
\* to visit: rglob promises no order of enumeration
ScanFrom(remaining, acc) ==
    IF remaining = {} THEN {acc}
    ELSE UNION {
            UNION {ScanFrom(remaining \ {p}, ScanOne(acc, p, lst)) :
                       lst \in ListOrders(Targets(fs[p]))} :
            p \in remaining}

scan_repository == ScanFrom(Files, [registry |-> <<>>, cross |-> <<>>])

(***************************************************************************)
(* lint_repository                                                         *)
(***************************************************************************)
MIN_RELATED == 3

\* the (src, tgt) pairs in the order the nested loops over cross visit them
RECURSIVE Edges(_)
Edges(cr) ==
    IF cr = <<>> THEN <<>>
    ELSE LET src  == cr[1][1]
             refs == cr[1][2].refs
         IN  [i \in DOMAIN refs |-> <<src, refs[i]>>] \o Edges(Tail(cr))

\* a variant of Resolves that accepts a target only the first time it is seen
ResolvesOnce(tgt, inbound) == tgt \in DOMAIN inbound /\ inbound[tgt] = 0

\* the test of line 129: the target is a key of inbound, that is of registry
Resolves(tgt, inbound) == tgt \in DOMAIN inbound

RECURSIVE LinkPass(_, _, _)
\* the first loop: count inbound references, report broken ones
LinkPass(edges, inbound, errs) ==
    IF edges = <<>> THEN [inbound |-> inbound, errors |-> errs]
    ELSE LET src == edges[1][1]
             tgt == edges[1][2]
         IN  IF Resolves(tgt, inbound)
             THEN LinkPass(Tail(edges), [inbound EXCEPT ![tgt] = @ + 1], errs)
             ELSE LinkPass(Tail(edges), inbound,
                           Append(errs, <<"Broken ref", src, tgt>>))

\* a variant of UnderLinked with the threshold off by one
UnderLinkedInclusive(out) == out <= MIN_RELATED

\* the test of line 134
UnderLinked(out) == out < MIN_RELATED

RECURSIVE SynthesisPass(_, _, _)
\* the second loop, over registry.items()
SynthesisPass(reg, cr, errs) ==
    IF reg = <<>> THEN errs
    ELSE LET slug == reg[1][1]
             meta == reg[1][2]
             out  == IF slug \in Keys(cr) THEN Len(Get(cr, slug).refs) ELSE 0
         IN  IF meta.type = "synthesis" /\ UnderLinked(out)
             THEN SynthesisPass(Tail(reg), cr,
                                Append(errs, <<"Synthesis needs >=3 related", slug>>))
             ELSE SynthesisPass(Tail(reg), cr, errs)

\* a variant of IsOrphan that also flags an entry with a single inbound reference
IsOrphanOrSingle(cnt) == cnt <= 1

\* the test of line 136
IsOrphan(cnt) == cnt = 0

RECURSIVE OrphanPass(_, _, _)
\* the third loop, over inbound.items(): inbound has the keys of registry in
\* registry order
OrphanPass(reg, inbound, warns) ==
    IF reg = <<>> THEN warns
    ELSE LET slug == reg[1][1]
         IN  IF IsOrphan(inbound[slug])
             THEN OrphanPass(Tail(reg), inbound, Append(warns, <<"Orphan", slug>>))
             ELSE OrphanPass(Tail(reg), inbound, warns)

lint_repository(reg, cr) ==
    LET links == LinkPass(Edges(cr), [slug \in Keys(reg) |-> 0], <<>>)
    IN  [errors   |-> SynthesisPass(reg, cr, links.errors),
         warnings |-> OrphanPass(reg, links.inbound, <<>>)]

(***************************************************************************)
(* main, one action per statement                                          *)
(***************************************************************************)
\* ap.parse_args(): --bundle given or not (--full is parsed and never read)
ParseArgs ==
    /\ pc = "args"
    /\ \E b \in BOOLEAN : args' = [bundle |-> b]
    /\ pc' = "scan"
    /\ UNCHANGED <<root_exists, fs, indexes, registry, cross, errors, warnings,
                   stdout, zip_path>>

Scan ==
    /\ pc = "scan"
    /\ \E res \in scan_repository :
           /\ registry' = res.registry
           /\ cross' = res.cross
    /\ pc' = "lint"
    /\ UNCHANGED <<root_exists, fs, indexes, args, errors, warnings, stdout, zip_path>>

Lint ==
    /\ pc = "lint"
    /\ LET res == lint_repository(registry, cross)
       IN  /\ errors' = res.errors
           /\ warnings' = res.warnings
    /\ pc' = "write"
    /\ UNCHANGED <<root_exists, fs, indexes, args, registry, cross, stdout, zip_path>>

\* write_indexes: mkdir(parents=True, exist_ok=True) creates kb_export/ too
\* when it is missing; json.dumps keeps the order of the dicts
WriteIndexes ==
    /\ pc = "write"
    /\ root_exists' = TRUE
    /\ indexes' = [exists |-> TRUE, registry_json |-> registry,
                   cross_links_json |-> cross]
    /\ pc' = "print"
    /\ UNCHANGED <<fs, args, registry, cross, errors, warnings, stdout, zip_path>>

\* a variant of PrintSummary that exits with a failure status after reporting
\* lint errors
PrintSummaryExitOnErrors ==
    /\ pc = "print"
    /\ stdout' = <<<<"Entries", Len(registry)>>>> \o
                   (IF errors # <<>> THEN <<<<"Errors", errors>>>> ELSE <<>>) \o
                   (IF warnings # <<>> THEN <<<<"Warnings", warnings>>>> ELSE <<>>)
    /\ pc' = IF errors # <<>> THEN "failed" ELSE "bundle"
    /\ UNCHANGED <<root_exists, fs, indexes, args, registry, cross, errors,
                   warnings, zip_path>>

\* lines 168-170
PrintSummary ==
    /\ pc = "print"
    /\ stdout' = <<<<"Entries", Len(registry)>>>> \o
                   (IF errors # <<>> THEN <<<<"Errors", errors>>>> ELSE <<>>) \o
                   (IF warnings # <<>> THEN <<<<"Warnings", warnings>>>> ELSE <<>>)
    /\ pc' = "bundle"
    /\ UNCHANGED <<root_exists, fs, indexes, args, registry, cross, errors,
                   warnings, zip_path>>

\* line 171 with --bundle: make_bundle archives every file under kb_export/
MakeBundle ==
    /\ pc = "bundle"
    /\ args.bundle
    /\ zip_path' = [written |-> TRUE, members |-> DOMAIN fs,
                    with_indexes |-> indexes.exists]
    /\ stdout' = Append(stdout, <<"[bundle] Wrote">>)
    /\ pc' = "done"
    /\ UNCHANGED <<root_exists, fs, indexes, args, registry, cross, errors, warnings>>

\* line 171 without --bundle: main returns
Return ==
    /\ pc = "bundle"
    /\ ~args.bundle
    /\ pc' = "done"
    /\ UNCHANGED <<root_exists, fs, indexes, args, registry, cross, errors,
                   warnings, stdout, zip_path>>

\* the program is run again over the same tree: a new process, the files on
\* disk as the last run left them
Rerun ==
    /\ pc = "done"
    /\ pc' = "args"
    /\ args' = NoArgs
    /\ registry' = <<>>
    /\ cross' = <<>>
    /\ errors' = <<>>
    /\ warnings' = <<>>
    /\ stdout' = <<>>
    /\ zip_path' = NoZip
    /\ UNCHANGED <<root_exists, fs, indexes>>

\* one run of the program
Next ==
    \/ ParseArgs
    \/ Scan
    \/ Lint
    \/ WriteIndexes
    \/ PrintSummary
    \/ MakeBundle
    \/ Return

Spec == Init /\ [][Next]_vars

\* any number of runs over the same tree
NextRerun ==
    \/ ParseArgs
    \/ Scan
    \/ Lint
    \/ WriteIndexes
    \/ PrintSummary
    \/ MakeBundle
    \/ Return
    \/ Rerun

SpecRerun == Init /\ [][NextRerun]_vars

(***************************************************************************)
(* Properties                                                              *)
(***************************************************************************)
Scanned == pc \in {"lint", "write", "print", "bundle", "done"}
Linted == pc \in {"write", "print", "bundle", "done"}

\* the number of times x occurs in the list l
Count(l, x) == Cardinality({i \in DOMAIN l : l[i] = x})

\* the targets stored under src in the graph g; none when src is no key
RefsOf(g, src) ==
    IF src \in Keys(g)
    THEN LET refs == Get(g, src).refs IN {refs[i] : i \in DOMAIN refs}
    ELSE {}

\* C1: lint reports "Broken ref: src -> tgt" exactly once for every edge of
\* the reference graph whose target is no registry key, never for an edge
\* whose target is a registry key, and never for a pair that is no edge (so
\* never for a slug without outbound edges).
C1_BrokenRefs ==
    Linted =>
        /\ \A src \in Keys(cross) : \A tgt \in RefsOf(cross, src) :
               Count(errors, <<"Broken ref", src, tgt>>) =
                   IF tgt \in Keys(registry) THEN 0 ELSE 1
        /\ \A i \in DOMAIN errors :
               errors[i][1] = "Broken ref" =>
                   errors[i][3] \in RefsOf(cross, errors[i][2])

C1_Witness ==
    /\ Linted
    /\ \E src \in Keys(cross) : \E tgt \in RefsOf(cross, src) :
           /\ tgt \notin Keys(registry)
           /\ Count(errors, <<"Broken ref", src, tgt>>) = 1
    /\ \E src \in Keys(cross) : \E tgt \in RefsOf(cross, src) : tgt \in Keys(registry)
    /\ \E slug \in Keys(registry) : slug \notin Keys(cross)

\* C2: for every registry entry, lint reports "Synthesis needs >=3 related"
\* exactly once when the entry is of kind synthesis and fewer than 3 targets
\* are stored for it in the graph (0 when it is no key; broken targets
\* count), and not at all otherwise; no such error names anything else.
C2_SynthesisThreshold ==
    Linted =>
        /\ \A slug \in Keys(registry) :
               Count(errors, <<"Synthesis needs >=3 related", slug>>) =
                   IF /\ Get(registry, slug).type = "synthesis"
                      /\ Cardinality(RefsOf(cross, slug)) < 3
                   THEN 1 ELSE 0
        /\ \A i \in DOMAIN errors :
               errors[i][1] = "Synthesis needs >=3 related" =>
                   errors[i][2] \in Keys(registry)

C2_Witness ==
    /\ Linted
    /\ \E slug \in Keys(registry) :
           /\ Get(registry, slug).type = "synthesis"
           /\ Cardinality(RefsOf(cross, slug)) = 2
           /\ Count(errors, <<"Synthesis needs >=3 related", slug>>) = 1
    /\ \E slug \in Keys(registry) :
           /\ Get(registry, slug).type = "encyclopedia"
           /\ Cardinality(RefsOf(cross, slug)) < 3

\* C3: lint warns "Orphan" exactly once for every registry slug that is the
\* target of no source, whatever its own outbound references, and never for
\* a slug that is the target of some source.
C3_Orphans ==
    Linted =>
        /\ \A slug \in Keys(registry) :
               Count(warnings, <<"Orphan", slug>>) =
                   IF \E src \in Keys(cross) : slug \in RefsOf(cross, src)
                   THEN 0 ELSE 1
        /\ \A i \in DOMAIN warnings : warnings[i][2] \in Keys(registry)

C3_Witness ==
    /\ Linted
    /\ \E slug \in Keys(registry) :
           /\ RefsOf(cross, slug) # {}
           /\ \A src \in Keys(cross) : slug \notin RefsOf(cross, src)
           /\ Count(warnings, <<"Orphan", slug>>) = 1
    /\ \E slug \in Keys(registry) :
           /\ \E src \in Keys(cross) : slug \in RefsOf(cross, src)
           /\ Count(warnings, <<"Orphan", slug>>) = 0

\* C4: an entry whose only inbound reference comes from its own document is
\* reported with an Orphan warning.
C4_SelfReferenceIsOrphan ==
    Linted =>
        \A slug \in Keys(registry) :
            (/\ slug \in RefsOf(cross, slug)
             /\ \A src \in Keys(cross) \ {slug} : slug \notin RefsOf(cross, src))
                => Count(warnings, <<"Orphan", slug>>) = 1

\* C5: every target the scan extracts is the matched text before the first
\* "#" without its leading KB: token, in whatever letter case the token was
\* written, so every target stored in the graph begins with "/".
C5_TargetsBeginWithSlash ==
    Scanned =>
        \A src \in Keys(cross) : \A tgt \in RefsOf(cross, src) : Head(tgt) = "/"

\* C6: after the scan a slug is a key of the graph exactly when the document
\* held in the registry under that slug contains a reference, and the targets
\* stored are the distinct targets of that document, each once.
C6_GraphMatchesRegistry ==
    Scanned =>
        /\ Keys(cross) \subseteq Keys(registry)
        /\ \A slug \in Keys(registry) :
               LET doc == Get(registry, slug).file
               IN  /\ slug \in Keys(cross) <=> Targets(fs[doc]) # {}
                   /\ RefsOf(cross, slug) = Targets(fs[doc])
                   /\ slug \in Keys(cross) =>
                          Len(Get(cross, slug).refs) = Cardinality(Targets(fs[doc]))

\* two dicts with the same keys and the same value under each key
SameDict(d, e) ==
    /\ Keys(d) = Keys(e)
    /\ \A k \in Keys(d) : Get(d, k) = Get(e, k)

\* C7: a run over an unchanged tree rewrites the index files with the same
\* keys, the same entries and the same sequence of targets per source as the
\* run before it.
C7_RerunReproducesIndexes ==
    [][(pc = "write" /\ indexes.exists) =>
           /\ SameDict(indexes.registry_json, indexes'.registry_json)
           /\ SameDict(indexes.cross_links_json, indexes'.cross_links_json)]_vars

\* C8: every step of a run goes to the next statement of main in the order
\* parse, scan, lint, write, print, bundle, end, whatever lint found: the
\* write step stores both indexes, the last step builds the archive exactly
\* when --bundle was given, and the run ends with the indexes on disk.
C8_PipelineOrder ==
    [][/\ <<pc, pc'>> \in {<<"args", "scan">>, <<"scan", "lint">>, <<"lint", "write">>,
                            <<"write", "print">>, <<"print", "bundle">>,
                            <<"bundle", "done">>}
       /\ pc = "write" =>
              /\ indexes'.exists
              /\ indexes'.registry_json = registry
              /\ indexes'.cross_links_json = cross
       /\ pc = "print" => stdout'[1] = <<"Entries", Len(registry)>>
       /\ pc = "bundle" => (zip_path'.written <=> args.bundle)
       /\ pc' = "done" => indexes'.exists]_vars

C8_Witness ==
    /\ pc = "done"
    /\ errors # <<>>
    /\ args.bundle
    /\ zip_path.written
    /\ indexes.exists
    /\ indexes.registry_json = registry

\* C9: while kb_export/ does not exist no step creates it or writes an index
\* file: the run stops before write_indexes.
C9_MissingRootAborts ==
    [][~root_exists => (~root_exists' /\ indexes' = indexes)]_vars

\* C10: distinct eligible files have distinct slugs, so the registry holds
\* one entry per eligible file.
C10_SlugsUnique ==
    Scanned =>
        /\ \A p \in Files : \A q \in Files : p # q => slugify_path(p) # slugify_path(q)
        /\ Len(registry) = Cardinality(Files)

====
